---------------------------- MODULE Spec2Model ----------------------------
(***************************************************************************)
(* A model of the iced graph editor widget (src/src/widget/graph) together *)
(* with the example host application (src/example/src/main.rs).            *)
(*                                                                         *)
(* f32 values are modelled as exact rationals <<n, d>> (d > 0, reduced);   *)
(* Point and Vector are records [x, y] of rationals.                       *)
(***************************************************************************)
EXTENDS Integers, Sequences, FiniteSets, TLC

VARIABLES
    app,      \* the host: App { nodes, scaling, translation, theme }
    view,     \* the Editor value built by App::view from app at the last rebuild
    tree,     \* the persisted widget tree: Interaction + one child per node
    cursor,   \* the runtime's raw cursor position
    queue,    \* messages published to the shell and not yet given to App::update
    pc,       \* "events" | "update" | "panicked"
    event,    \* the last input event routed through Editor::on_event
    status,   \* the event::Status Editor::on_event returned for it
    emitted,  \* the messages that event published, in order
    routed,   \* how that event was routed: the nodes' merged status, whether
              \* the editor's own recognizer was given the event, the status
              \* of each node and that of each node's content
    gesture,  \* the last primary press, while only cursor moves followed it
    nEvents,  \* number of input events routed so far
    frame,    \* the connectors stroked by the last Editor::draw, in order
    hint      \* the mouse::Interaction the editor reported with that draw

vars == <<app, view, tree, cursor, queue, pc, event, status, emitted, routed,
          gesture, nEvents, frame, hint>>

---------------------------------------------------------------------------
(* Bounds of the model *)

\* number of input events in one run
MaxEvents == 6
\* sizes of the graphs a deletion is applied to
MaxNodes == 3
MaxEdges == 2

---------------------------------------------------------------------------
(* Exact rational arithmetic standing in for f32 *)

Abs(n) == IF n < 0 THEN -n ELSE n

RECURSIVE GCD(_, _)
GCD(a, b) == IF b = 0 THEN a ELSE GCD(b, a % b)

\* n/d with n and d divided by g, the sign carried by the numerator
Reduce(n, d, g) == IF d < 0 THEN <<(-n) \div g, (-d) \div g>> ELSE <<n \div g, d \div g>>

Rat(n, d) == Reduce(n, d, GCD(Abs(n), Abs(d)))

R(n) == <<n, 1>>

RAdd(a, b) == Rat(a[1] * b[2] + b[1] * a[2], a[2] * b[2])
RSub(a, b) == Rat(a[1] * b[2] - b[1] * a[2], a[2] * b[2])
RMul(a, b) == Rat(a[1] * b[1], a[2] * b[2])
RDiv(a, b) == Rat(a[1] * b[2], a[2] * b[1])
RLt(a, b) == a[1] * b[2] < b[1] * a[2]
RLe(a, b) == a[1] * b[2] <= b[1] * a[2]
\* f32::max and f32::min
RMax(a, b) == IF RLt(a, b) THEN b ELSE a
RMin(a, b) == IF RLt(b, a) THEN b ELSE a

Pt(x, y) == [x |-> R(x), y |-> R(y)]
\* Vector::default()
VZero == Pt(0, 0)
VAdd(a, b) == [x |-> RAdd(a.x, b.x), y |-> RAdd(a.y, b.y)]
VSub(a, b) == [x |-> RSub(a.x, b.x), y |-> RSub(a.y, b.y)]
VScale(a, k) == [x |-> RMul(a.x, k), y |-> RMul(a.y, k)]

\* Rectangle::contains
contains(rect, p) ==
    /\ RLe(rect.x, p.x) /\ RLt(p.x, RAdd(rect.x, rect.width))
    /\ RLe(rect.y, p.y) /\ RLt(p.y, RAdd(rect.y, rect.height))

\* Rectangle + Vector
RectShift(rect, v) ==
    [rect EXCEPT !.x = RAdd(rect.x, v.x), !.y = RAdd(rect.y, v.y)]

---------------------------------------------------------------------------
(* Program constants *)

MIN_SCALING == <<1, 10>>
MAX_SCALING == <<5, 1>>


\* Editor::new: max_node_size = Size::new(300.0, 300.0)
max_node_size == 300

---------------------------------------------------------------------------
(* The host application: src/example/src/main.rs *)

Node(kind, offset, edges) == [kind |-> kind, offset |-> offset, edges |-> edges]

\* App::new
App_new ==
    [ nodes |-> << Node("A", Pt(50, 50), <<1>>),
                   Node("B", Pt(150, 100), <<2, 3>>),
                   Node("C", Pt(350, 25), <<3>>),
                   Node("D", Pt(500, 200), <<>>) >>,
      scaling |-> R(1),
      translation |-> Pt(0, 0),
      theme |-> "Light" ]

\* Messages of the host, and the graph events they wrap
NodeMoved(index, offset) == [type |-> "NodeMoved", index |-> index, offset |-> offset]
Scaled(scaling, translation) ==
    [type |-> "Scaled", scaling |-> scaling, translation |-> translation]
Translated(translation) == [type |-> "Translated", translation |-> translation]
DeleteNode(index) == [type |-> "DeleteNode", index |-> index]
ToggleTheme == [type |-> "ToggleTheme"]

\* the filter alone, the entries above the index left as they are
RenumberEdges_NoDecrement(edges, index) ==
    SelectSeq(edges, LAMBDA i : i # index)

RECURSIVE RenumberEdges(_, _)
\* edges.into_iter().filter(|i| *i != index).map(|i| if i > index { i - 1 } else { i })
RenumberEdges(edges, index) ==
    IF edges = <<>> THEN <<>>
    ELSE LET i == Head(edges)
             rest == RenumberEdges(Tail(edges), index)
         IN  IF i = index THEN rest
             ELSE <<(IF i > index THEN i - 1 ELSE i)>> \o rest

\* Vec::remove(index), for index < len
VecRemove(s, index) ==
    [j \in 1..(Len(s) - 1) |-> IF j <= index THEN s[j] ELSE s[j + 1]]

\* the Message::DeleteNode arm of App::update, for index < len
DeleteNodeArm(nodes, index) ==
    LET removed == VecRemove(nodes, index)
    IN  [j \in 1..Len(removed) |->
            [removed[j] EXCEPT !.edges = RenumberEdges(removed[j].edges, index)]]

\* Option<usize> of the first host (src/src/main.rs): None, Some(i), and the
\* derived order in which None is below every Some
None == <<>>
Some(i) == <<i>>
OptionGt(a, b) == a # None /\ (b = None \/ a[1] > b[1])

\* the match on node.edge in the first host's Message::DeleteNode arm
take_or_decrement(edge, index) ==
    IF edge = Some(index) THEN None
    ELSE IF OptionGt(edge, Some(index)) THEN Some(edge[1] - 1)
    ELSE edge

\* the Message::DeleteNode arm of the first host, whose nodes hold one
\* optional edge, for index < len
DeleteNodeArm_edge(nodes, index) ==
    [j \in 1..(Len(nodes) - 1) |->
        [VecRemove(nodes, index)[j] EXCEPT
            !.edge = take_or_decrement(VecRemove(nodes, index)[j].edge, index)]]

\* whether App::update panics on the message (index out of range)
update_panics(a, message) ==
    /\ message.type \in {"NodeMoved", "DeleteNode"}
    /\ message.index >= Len(a.nodes)

\* App::update, for a message it does not panic on
update(a, message) ==
    CASE message.type = "NodeMoved" ->
            [a EXCEPT !.nodes[message.index + 1].offset = message.offset]
      [] message.type = "Scaled" ->
            [a EXCEPT !.scaling = message.scaling,
                      !.translation = message.translation]
      [] message.type = "Translated" ->
            [a EXCEPT !.translation = message.translation]
      [] message.type = "ToggleTheme" ->
            [a EXCEPT !.theme = IF a.theme = "Light" THEN "Dark" ELSE "Light"]
      [] message.type = "DeleteNode" ->
            [a EXCEPT !.nodes = DeleteNodeArm(a.nodes, message.index)]

\* App::view: graph::Editor::new(nodes, Message::Graph).scaling(..).translation(..)
App_view(a) ==
    [nodes |-> a.nodes, scaling |-> a.scaling, translation |-> a.translation]

\* the editor fills the inner container, which the outer one pads by 50
\* in a window of the default size
EditorBounds == [x |-> R(50), y |-> R(50), width |-> R(924), height |-> R(668)]

\* node_content in App::view: the size the content of each kind is laid out at
ContentSize(kind) ==
    CASE kind = "A" -> [width |-> 60, height |-> 20]
      [] kind = "B" -> [width |-> 160, height |-> 45]
      [] kind = "C" -> [width |-> 70, height |-> 55]
      [] kind = "D" -> [width |-> 120, height |-> 55]

\* node_content: kinds C and D hold a button under their text
HasButton(kind) == kind \in {"C", "D"}

\* node_content: the message of the kind's button
on_press(kind) == IF kind = "C" THEN DeleteNode(2) ELSE ToggleTheme

\* the button's bounds inside the content's: below the text and the spacing
ButtonBounds(content_bounds) ==
    [content_bounds EXCEPT !.y = RAdd(content_bounds.y, R(25)),
                           !.height = RSub(content_bounds.height, R(25))]

---------------------------------------------------------------------------
(* Input events *)

CursorMoved == [type |-> "CursorMoved", y |-> R(0)]
ButtonPressed == [type |-> "ButtonPressed", y |-> R(0)]
ButtonReleased == [type |-> "ButtonReleased", y |-> R(0)]
WheelScrolled(y) == [type |-> "WheelScrolled", y |-> y]
\* a mouse event the widgets have no arm for, and a non-mouse event
RightPressed == [type |-> "RightPressed", y |-> R(0)]
KeyPressed == [type |-> "KeyPressed", y |-> R(0)]

Ignored == "Ignored"
Captured == "Captured"
\* no status: the widget was not given the event
NotOffered == "NotOffered"
\* event::Status::merge
merge(a, b) == IF a = Captured \/ b = Captured THEN Captured ELSE Ignored

---------------------------------------------------------------------------
(* Node: src/src/widget/graph/node.rs *)

\* node::State
Idle == [tag |-> "Idle"]
Hovered == [tag |-> "Hovered"]
Translating(started_at, offset) ==
    [tag |-> "Translating", started_at |-> started_at, offset |-> offset]

\* State::adjusted_bounds
adjusted_bounds(state, bounds) ==
    IF state.tag = "Translating" THEN RectShift(bounds, state.offset) ELSE bounds

\* Tree { state: node.state(), children: node.children() }: a fresh child tree
NewChild == [state |-> Idle, pressed |-> FALSE]

Min(a, b) == IF a < b THEN a ELSE b

\* Node::layout under Limits::new(Size::ZERO, max_node_size), placed in the
\* editor: the node's bounds and those of its content
\* layout::Node::with_children(node, vec![content.translate(offset)])
\*     .translate(self.offset): a content of size cw x ch padded by
\* [20, 5, 5, 5] (top, right, bottom, left), the node at (x, y)
PaddedLayout(x, y, cw, ch) ==
    [ bounds  |-> [x |-> x, y |-> y, width |-> R(cw + 10), height |-> R(ch + 25)],
      content |-> [x |-> RAdd(x, R(5)), y |-> RAdd(y, R(20)),
                   width |-> R(cw), height |-> R(ch)] ]

Node_layout(node) ==
    PaddedLayout(RAdd(EditorBounds.x, node.offset.x),
                 RAdd(EditorBounds.y, node.offset.y),
                 Min(ContentSize(node.kind).width, max_node_size - 10),
                 Min(ContentSize(node.kind).height, max_node_size - 25))

\* Editor::layout: one child layout per node
Editor_layout(ed) == [i \in 1..Len(ed.nodes) |-> Node_layout(ed.nodes[i])]

\* in_bounds of Node::on_event: inside the node, outside its content
in_band(layout, cursor_position) ==
    /\ contains(layout.bounds, cursor_position)
    /\ ~contains(layout.content, cursor_position)

\* self.content.as_widget_mut().on_event(..): a text ignores every event,
\* a button captures a press inside it and the release that follows
Button_on_event(kind, pressed, ev, inside) ==
    IF ~HasButton(kind)
    THEN [pressed |-> pressed, status |-> Ignored, msgs |-> <<>>]
    ELSE IF ev.type = "ButtonPressed" /\ inside
    THEN [pressed |-> TRUE, status |-> Captured, msgs |-> <<>>]
    ELSE IF ev.type = "ButtonReleased" /\ pressed
    THEN [pressed |-> FALSE, status |-> Captured,
          msgs |-> IF inside THEN <<on_press(kind)>> ELSE <<>>]
    ELSE [pressed |-> pressed, status |-> Ignored, msgs |-> <<>>]

Content_on_event(kind, pressed, ev, content_bounds, cursor_position) ==
    Button_on_event(kind, pressed, ev,
                    contains(ButtonBounds(content_bounds), cursor_position))

\* a release that commits the live offset alone, without the static offset
Node_on_event_translating_NoStatic(node, index, child, ev, in_bounds, cursor_position) ==
    IF ev.type = "CursorMoved"
    THEN [child |-> [child EXCEPT !.state.offset =
                        VSub(cursor_position, child.state.started_at)],
          status |-> Captured, content |-> NotOffered, msgs |-> <<>>]
    ELSE IF ev.type = "ButtonReleased"
    THEN [child |-> [child EXCEPT !.state = IF in_bounds THEN Hovered ELSE Idle],
          status |-> Ignored, content |-> NotOffered,
          msgs |-> <<NodeMoved(index, child.state.offset)>>]
    ELSE [child |-> child, status |-> Ignored, content |-> NotOffered,
          msgs |-> <<>>]

\* a release that always leaves the node Idle
Node_on_event_translating_ToIdle(node, index, child, ev, in_bounds, cursor_position) ==
    IF ev.type = "CursorMoved"
    THEN [child |-> [child EXCEPT !.state.offset =
                        VSub(cursor_position, child.state.started_at)],
          status |-> Captured, content |-> NotOffered, msgs |-> <<>>]
    ELSE IF ev.type = "ButtonReleased"
    THEN [child |-> [child EXCEPT !.state = Idle],
          status |-> Ignored, content |-> NotOffered,
          msgs |-> <<NodeMoved(index, VAdd(node.offset, child.state.offset))>>]
    ELSE [child |-> child, status |-> Ignored, content |-> NotOffered,
          msgs |-> <<>>]

\* the Translating branch of Node::on_event
Node_on_event_translating(node, index, child, ev, in_bounds, cursor_position) ==
    IF ev.type = "CursorMoved"
    THEN [child |-> [child EXCEPT !.state.offset =
                        VSub(cursor_position, child.state.started_at)],
          status |-> Captured, content |-> NotOffered, msgs |-> <<>>]
    ELSE IF ev.type = "ButtonReleased"
    THEN [child |-> [child EXCEPT !.state = IF in_bounds THEN Hovered ELSE Idle],
          status |-> Ignored, content |-> NotOffered,
          msgs |-> <<NodeMoved(index, VAdd(node.offset, child.state.offset))>>]
    ELSE [child |-> child, status |-> Ignored, content |-> NotOffered,
          msgs |-> <<>>]

\* transitions in which a Hovered node is never set back to Idle
Node_on_event_local_StaysHovered(child, ev, in_bounds, cursor_position) ==
    IF ev.type = "CursorMoved" /\ in_bounds /\ child.state.tag = "Idle"
    THEN [state |-> Hovered, status |-> Captured]
    ELSE IF ev.type = "ButtonPressed" /\ child.state.tag = "Hovered"
    THEN [state |-> Translating(cursor_position, VZero), status |-> Captured]
    ELSE [state |-> child.state, status |-> Ignored]

\* transitions in which a press in the band drags an Idle node as well
Node_on_event_local_PressStartsDrag(child, ev, in_bounds, cursor_position) ==
    IF ev.type = "CursorMoved" /\ in_bounds /\ child.state.tag = "Idle"
    THEN [state |-> Hovered, status |-> Captured]
    ELSE IF ev.type = "CursorMoved" /\ ~in_bounds /\ child.state.tag = "Hovered"
    THEN [state |-> Idle, status |-> Captured]
    ELSE IF ev.type = "ButtonPressed"
            /\ (child.state.tag = "Hovered" \/ in_bounds)
    THEN [state |-> Translating(cursor_position, VZero), status |-> Captured]
    ELSE [state |-> child.state, status |-> Ignored]

\* the hover/drag transitions of Node::on_event, once the content ignored
Node_on_event_local(child, ev, in_bounds, cursor_position) ==
    IF ev.type = "CursorMoved" /\ in_bounds /\ child.state.tag = "Idle"
    THEN [state |-> Hovered, status |-> Captured]
    ELSE IF ev.type = "CursorMoved" /\ ~in_bounds /\ child.state.tag = "Hovered"
    THEN [state |-> Idle, status |-> Captured]
    ELSE IF ev.type = "ButtonPressed" /\ child.state.tag = "Hovered"
    THEN [state |-> Translating(cursor_position, VZero), status |-> Captured]
    ELSE [state |-> child.state, status |-> Ignored]

\* a node that reports its own transitions' status whatever the content did
Node_on_event_idle_OwnStatus(child, c, l) ==
    IF c.status = Ignored
    THEN [child |-> [state |-> l.state, pressed |-> c.pressed],
          status |-> l.status, content |-> c.status, msgs |-> c.msgs]
    ELSE [child |-> [child EXCEPT !.pressed = c.pressed],
          status |-> l.status, content |-> c.status, msgs |-> c.msgs]

\* the node's result from its content's result c and its own transitions' l
Node_on_event_idle(child, c, l) ==
    IF c.status = Ignored
    THEN [child |-> [state |-> l.state, pressed |-> c.pressed],
          status |-> l.status, content |-> c.status, msgs |-> c.msgs]
    ELSE [child |-> [child EXCEPT !.pressed = c.pressed],
          status |-> c.status, content |-> c.status, msgs |-> c.msgs]

\* a node that hands the event to its content during a drag as well
Node_on_event_in_ContentAlways(node, index, child, ev, layout, cursor_position, in_bounds) ==
    IF child.state.tag = "Translating"
    THEN [Node_on_event_translating(node, index, child, ev, in_bounds,
                                    cursor_position)
            EXCEPT !.content = Content_on_event(node.kind, child.pressed, ev,
                                   layout.content, cursor_position).status]
    ELSE Node_on_event_idle(child,
            Content_on_event(node.kind, child.pressed, ev, layout.content,
                             cursor_position),
            Node_on_event_local(child, ev, in_bounds, cursor_position))

\* Node::on_event, with in_bounds computed
Node_on_event_in(node, index, child, ev, layout, cursor_position, in_bounds) ==
    IF child.state.tag = "Translating"
    THEN Node_on_event_translating(node, index, child, ev, in_bounds,
                                   cursor_position)
    ELSE Node_on_event_idle(child,
            Content_on_event(node.kind, child.pressed, ev, layout.content,
                             cursor_position),
            Node_on_event_local(child, ev, in_bounds, cursor_position))

\* Node::on_event
Node_on_event(node, index, child, ev, layout, cursor_position) ==
    Node_on_event_in(node, index, child, ev, layout, cursor_position,
                     in_band(layout, cursor_position))

---------------------------------------------------------------------------
(* Editor: src/src/widget/graph/editor.rs *)

\* the raw cursor handed on as it is
transform_cursor_Raw(ed, cursor_position) == cursor_position

\* Editor::transform_cursor: the inverse of scale(s) * translate(t),
\* which maps p to (p + t) * s
transform_cursor(ed, cursor_position) ==
    [x |-> RSub(RDiv(cursor_position.x, ed.scaling), ed.translation.x),
     y |-> RSub(RDiv(cursor_position.y, ed.scaling), ed.translation.y)]

\* one node's result r put before the results of the nodes after it
FoldNode(r, rest) ==
    [children |-> <<r.child>> \o rest.children,
     status |-> merge(r.status, rest.status),
     msgs |-> r.msgs \o rest.msgs,
     statuses |-> <<r.status>> \o rest.statuses,
     contents |-> <<r.content>> \o rest.contents]

\* the nodes after one that consumed the event, left as they are
NotReached(children, i) ==
    [children |-> SubSeq(children, i, Len(children)),
     status |-> Ignored, msgs |-> <<>>,
     statuses |-> [j \in 1..(Len(children) - i + 1) |-> NotOffered],
     contents |-> [j \in 1..(Len(children) - i + 1) |-> NotOffered]]

\* one node's result r, and the nodes after it only if it ignored the event
FoldUntilCaptured(r, children, i, rest) ==
    FoldNode(r, IF r.status = Captured THEN NotReached(children, i) ELSE rest)

RECURSIVE RouteToNodes_ShortCircuit(_, _, _, _, _)
\* a routing that stops at the first node that consumes the event
RouteToNodes_ShortCircuit(ed, children, ev, transformed_cursor, i) ==
    IF i > Len(ed.nodes) \/ i > Len(children)
    THEN [children |-> SubSeq(children, i, Len(children)),
          status |-> Ignored, msgs |-> <<>>, statuses |-> <<>>,
          contents |-> <<>>]
    ELSE FoldUntilCaptured(
            Node_on_event(ed.nodes[i], i - 1, children[i], ev,
                          Node_layout(ed.nodes[i]), transformed_cursor),
            children, i + 1,
            RouteToNodes_ShortCircuit(ed, children, ev, transformed_cursor, i + 1))

RECURSIVE RouteToNodes(_, _, _, _, _)
\* the nodes.iter_mut().zip(..).enumerate().map(node.on_event).fold(merge)
\* of Editor::on_event, from the node at position i (1-based) on
RouteToNodes(ed, children, ev, transformed_cursor, i) ==
    IF i > Len(ed.nodes) \/ i > Len(children)
    THEN [children |-> SubSeq(children, i, Len(children)),
          status |-> Ignored, msgs |-> <<>>, statuses |-> <<>>,
          contents |-> <<>>]
    ELSE FoldNode(Node_on_event(ed.nodes[i], i - 1, children[i], ev,
                                Node_layout(ed.nodes[i]), transformed_cursor),
                  RouteToNodes(ed, children, ev, transformed_cursor, i + 1))

\* the new scaling without its upper clamp
NewScaling_NoMin(scaling, y) ==
    RMax(RMul(scaling, RAdd(R(1), RDiv(y, R(15)))), MIN_SCALING)

\* new scaling of the WheelScrolled arm
NewScaling(scaling, y) ==
    RMin(RMax(RMul(scaling, RAdd(R(1), RDiv(y, R(15)))), MIN_SCALING), MAX_SCALING)

\* new translation of the WheelScrolled arm
NewTranslation(translation, cursor_position, old_scaling, scaling) ==
    VSub(translation,
         [x |-> RDiv(RMul(cursor_position.x, RSub(scaling, old_scaling)),
                     RMul(old_scaling, old_scaling)),
          y |-> RDiv(RMul(cursor_position.y, RSub(scaling, old_scaling)),
                     RMul(old_scaling, old_scaling))])

\* the event of the WheelScrolled arm
ScaledAt(ed, cursor_position, scaling) ==
    Scaled(scaling,
           NewTranslation(ed.translation, cursor_position, ed.scaling, scaling))

\* the guard with the bounds included
ScrollApplies_AtBound(scaling, y) ==
    \/ RLt(y, R(0)) /\ RLe(MIN_SCALING, scaling)
    \/ RLt(R(0), y) /\ RLe(scaling, MAX_SCALING)

\* the guard of the WheelScrolled arm
ScrollApplies(scaling, y) ==
    \/ RLt(y, R(0)) /\ RLt(MIN_SCALING, scaling)
    \/ RLt(R(0), y) /\ RLt(scaling, MAX_SCALING)

\* the recognizer with a live offset left in raw units, not divided by scale
Editor_own_event_Unscaled(ed, interaction, ev, cursor_position) ==
    IF ev.type = "ButtonPressed"
    THEN [interaction |-> Translating(cursor_position, VZero),
          status |-> Captured, msgs |-> <<>>]
    ELSE IF ev.type = "ButtonReleased" /\ interaction.tag = "Translating"
    THEN [interaction |-> Idle, status |-> Captured,
          msgs |-> <<Translated(VAdd(ed.translation, interaction.offset))>>]
    ELSE IF ev.type = "CursorMoved" /\ interaction.tag = "Translating"
    THEN [interaction |->
            [interaction EXCEPT !.offset =
                VSub(cursor_position, interaction.started_at)],
          status |-> Captured, msgs |-> <<>>]
    ELSE IF ev.type = "WheelScrolled" /\ ScrollApplies(ed.scaling, ev.y)
    THEN [interaction |-> interaction, status |-> Captured,
          msgs |-> <<ScaledAt(ed, cursor_position, NewScaling(ed.scaling, ev.y))>>]
    ELSE [interaction |-> interaction, status |-> Ignored, msgs |-> <<>>]

\* the editor's own pan/zoom recognizer: the match of Editor::on_event
Editor_own_event(ed, interaction, ev, cursor_position) ==
    IF ev.type = "ButtonPressed"
    THEN [interaction |-> Translating(cursor_position, VZero),
          status |-> Captured, msgs |-> <<>>]
    ELSE IF ev.type = "ButtonReleased" /\ interaction.tag = "Translating"
    THEN [interaction |-> Idle, status |-> Captured,
          msgs |-> <<Translated(VAdd(ed.translation, interaction.offset))>>]
    ELSE IF ev.type = "CursorMoved" /\ interaction.tag = "Translating"
    THEN [interaction |->
            [interaction EXCEPT !.offset =
                VScale(VSub(cursor_position, interaction.started_at),
                       RDiv(R(1), ed.scaling))],
          status |-> Captured, msgs |-> <<>>]
    ELSE IF ev.type = "WheelScrolled" /\ ScrollApplies(ed.scaling, ev.y)
    THEN [interaction |-> interaction, status |-> Captured,
          msgs |-> <<ScaledAt(ed, cursor_position, NewScaling(ed.scaling, ev.y))>>]
    ELSE [interaction |-> interaction, status |-> Ignored, msgs |-> <<>>]

\* the test without the nodes' status
OwnGetsEvent_AnyStatus(child_status, contains_cursor) == contains_cursor

\* whether the editor's own recognizer gets the event
OwnGetsEvent(child_status, contains_cursor) ==
    child_status = Ignored /\ contains_cursor

\* a recognizer that writes a pan into its own translation field as well
Editor_result_own_Commits(ed, n, o) ==
    [ed |-> IF o.msgs # <<>> /\ o.msgs[1].type = "Translated"
            THEN [ed EXCEPT !.translation = o.msgs[1].translation]
            ELSE ed,
     tree |-> [interaction |-> o.interaction, children |-> n.children],
     status |-> o.status, msgs |-> n.msgs \o o.msgs,
     child_status |-> n.status, own |-> TRUE,
     statuses |-> n.statuses, contents |-> n.contents]

\* the result of Editor::on_event when its own recognizer ran, from the
\* nodes' result n and the recognizer's o
Editor_result_own(ed, n, o) ==
    [ed |-> ed,
     tree |-> [interaction |-> o.interaction, children |-> n.children],
     status |-> o.status, msgs |-> n.msgs \o o.msgs,
     child_status |-> n.status, own |-> TRUE,
     statuses |-> n.statuses, contents |-> n.contents]

\* Editor::on_event after the nodes had the event, n their result
Editor_on_event_after(ed, tr, ev, cursor_position, n) ==
    IF OwnGetsEvent(n.status, contains(EditorBounds, cursor_position))
    THEN Editor_result_own(ed, n,
            Editor_own_event(ed, tr.interaction, ev, cursor_position))
    ELSE [ed |-> ed,
          tree |-> [interaction |-> tr.interaction, children |-> n.children],
          status |-> n.status, msgs |-> n.msgs,
          child_status |-> n.status, own |-> FALSE,
          statuses |-> n.statuses, contents |-> n.contents]

\* Editor::on_event (&mut self, tree): the editor and the tree after the
\* call, the status returned and the messages published
Editor_on_event(ed, tr, ev, cursor_position) ==
    Editor_on_event_after(ed, tr, ev, cursor_position,
        RouteToNodes(ed, tr.children, ev,
                     transform_cursor(ed, cursor_position), 1))

\* Editor::children: a fresh tree for the first build
Editor_children(ed) == [i \in 1..Len(ed.nodes) |-> NewChild]

\* a reconciliation that starts every node afresh
Editor_diff_Fresh(old, new, tr) ==
    [interaction |-> tr.interaction,
     children |-> [i \in 1..Len(new.nodes) |-> NewChild]]

\* a reconciliation that keeps a hover but ends a drag in progress
Editor_diff_DropsDrag(old, new, tr) ==
    [interaction |-> tr.interaction,
     children |->
        [i \in 1..Len(new.nodes) |->
            IF i <= Len(tr.children) /\ tr.children[i].state.tag # "Translating"
            THEN [state |-> tr.children[i].state, pressed |-> FALSE]
            ELSE NewChild]]

\* a reconciliation that never truncates the children
Editor_diff_NoTruncate(old, new, tr) ==
    [interaction |-> tr.interaction,
     children |->
        [i \in 1..(IF Len(tr.children) > Len(new.nodes)
                   THEN Len(tr.children) ELSE Len(new.nodes)) |->
            IF i <= Len(tr.children) THEN tr.children[i] ELSE NewChild]]

\* Editor::diff (Tree::diff_children_custom with Node::diff): children are
\* matched by position; a kept child keeps its node state, and keeps its
\* content's state when the new content has the same widgets
Editor_diff(old, new, tr) ==
    [interaction |-> tr.interaction,
     children |->
        [i \in 1..Len(new.nodes) |->
            IF i <= Len(tr.children)
            THEN [state |-> tr.children[i].state,
                  pressed |-> /\ tr.children[i].pressed
                              /\ HasButton(old.nodes[i].kind)
                              /\ HasButton(new.nodes[i].kind)]
            ELSE NewChild]]

\* Interaction::offset
Interaction_offset(interaction) ==
    IF interaction.tag = "Translating" THEN interaction.offset ELSE VZero

\* transform_point of Editor::draw, in the frame placed at the padded bounds
transform_point(ed, interaction, point) ==
    [x |-> RSub(RMul(RAdd(point.x, RAdd(ed.translation.x,
                                        Interaction_offset(interaction).x)),
                     ed.scaling),
                RAdd(EditorBounds.x, R(1))),
     y |-> RSub(RMul(RAdd(point.y, RAdd(ed.translation.y,
                                        Interaction_offset(interaction).y)),
                     ed.scaling),
                RAdd(EditorBounds.y, R(1)))]

\* start_untransformed: the middle of the right side of the source
RightMiddle(bounds) ==
    [x |-> RAdd(bounds.x, bounds.width),
     y |-> RAdd(bounds.y, RDiv(bounds.height, R(2)))]

\* end_untransformed: the middle of the left side of the target
LeftMiddle(bounds) ==
    [x |-> bounds.x, y |-> RAdd(bounds.y, RDiv(bounds.height, R(2)))]

\* one stroked path of Editor::draw, from node from_index to node to_index
Connector(ed, tr, from_index, to_index) ==
    [from  |-> from_index,
     to    |-> to_index,
     start |-> transform_point(ed, tr.interaction,
                  RightMiddle(adjusted_bounds(tr.children[from_index + 1].state,
                                  Node_layout(ed.nodes[from_index + 1]).bounds))),
     end   |-> transform_point(ed, tr.interaction,
                  LeftMiddle(adjusted_bounds(tr.children[to_index + 1].state,
                                 Node_layout(ed.nodes[to_index + 1]).bounds)))]

\* the targets drawn from a node when self-loops are left out
DrawTargets_NoSelfLoops(ed, from_index) ==
    SelectSeq(ed.nodes[from_index + 1].edges,
              LAMBDA to_index : to_index < Len(ed.nodes) /\ to_index # from_index)

\* the entries of from.edges that pass self.nodes.get(to_index).is_some()
DrawTargets(ed, from_index) ==
    SelectSeq(ed.nodes[from_index + 1].edges,
              LAMBDA to_index : to_index < Len(ed.nodes))

\* the inner for loop of Editor::draw over the targets of one node
ConnectorsTo(ed, tr, from_index, targets) ==
    [p \in 1..Len(targets) |-> Connector(ed, tr, from_index, targets[p])]

RECURSIVE Editor_draw_edges(_, _, _)
\* the connector loop of Editor::draw from node from_index on: the paths
\* stroked, in the order of the draw calls
Editor_draw_edges(ed, tr, from_index) ==
    IF from_index >= Len(ed.nodes) THEN <<>>
    ELSE ConnectorsTo(ed, tr, from_index, DrawTargets(ed, from_index))
            \o Editor_draw_edges(ed, tr, from_index + 1)

\* whether Editor::draw panics: an entry with a target in the node list
\* whose source or target has no tree child or no layout child to unwrap
draw_panics(ed, tr, layout) ==
    \E from_index \in 0..(Len(ed.nodes) - 1) :
    \E p \in 1..Len(ed.nodes[from_index + 1].edges) :
        /\ ed.nodes[from_index + 1].edges[p] < Len(ed.nodes)
        /\ \/ from_index >= Len(tr.children)
           \/ ed.nodes[from_index + 1].edges[p] >= Len(tr.children)
           \/ from_index >= Len(layout)
           \/ ed.nodes[from_index + 1].edges[p] >= Len(layout)

\* Editor::draw: the connectors of one frame
Editor_draw(ed, tr) == Editor_draw_edges(ed, tr, 0)

\* mouse::Interaction: the hints the widgets report, and their place in the
\* derived order of the enum (Idle, Pointer, Grab, Text, Crosshair, Working,
\* Grabbing, ...)
Interaction_default == "Idle"
Grab == "Grab"
Grabbing == "Grabbing"
Interaction_rank(interaction) ==
    CASE interaction = Interaction_default -> 0
      [] interaction = Grab -> 2
      [] interaction = Grabbing -> 6

\* the first of two hints, whatever their order
Interaction_max_First(a, b) == a

\* Ord::max of two hints
Interaction_max(a, b) ==
    IF Interaction_rank(b) >= Interaction_rank(a) THEN b ELSE a

\* Node::mouse_interaction
Node_mouse_interaction(state) ==
    CASE state.tag = "Idle" -> Interaction_default
      [] state.tag = "Hovered" -> Grab
      [] state.tag = "Translating" -> Grabbing

RECURSIVE MaxOfNodes(_, _, _)
\* .map(node.mouse_interaction).max() over the zip of nodes and tree
\* children from position i on, the default standing for None
MaxOfNodes(ed, tr, i) ==
    IF i > Len(ed.nodes) \/ i > Len(tr.children) THEN Interaction_default
    ELSE Interaction_max(Node_mouse_interaction(tr.children[i].state),
                         MaxOfNodes(ed, tr, i + 1))

\* Editor::mouse_interaction
Editor_mouse_interaction(ed, tr) == MaxOfNodes(ed, tr, 1)

---------------------------------------------------------------------------
(* The runtime: input events, the shell's messages, rebuilds *)

\* raw cursor positions the pointer visits: outside the editor, in the
\* band of node A, on the buttons of C and of D, on the empty canvas
CursorPoints ==
    { Pt(10, 10), Pt(110, 105), Pt(410, 130), Pt(560, 300), Pt(300, 400) }

\* vertical scroll deltas: a factor of 3 and a factor of 1/3
ScrollDeltas == { R(30), R(-10) }

OtherEvents == { RightPressed, KeyPressed }

NoEvent == [type |-> "None", y |-> R(0)]

NotRouted ==
    [child_status |-> Ignored, own |-> FALSE, statuses |-> <<>>, contents |-> <<>>]

NoGesture == [active |-> FALSE, at |-> Pt(0, 0), band |-> {}, hovered |-> {}]

\* a press records where it happened, the nodes whose band held the
\* transformed cursor and the nodes that were Hovered; cursor moves keep
\* the record, every other event ends it
Gesture_next(g, ev, pos, ed, tr) ==
    IF ev.type = "ButtonPressed"
    THEN [active |-> TRUE, at |-> pos,
          band |-> {i \in 1..Len(ed.nodes) :
                      in_band(Node_layout(ed.nodes[i]), transform_cursor(ed, pos))},
          hovered |-> {i \in 1..Len(tr.children) :
                         tr.children[i].state.tag = "Hovered"}]
    ELSE IF ev.type = "CursorMoved" THEN g
    ELSE NoGesture

Init ==
    /\ app = App_new
    /\ view = App_view(App_new)
    /\ tree = [interaction |-> Idle, children |-> Editor_children(App_view(App_new))]
    /\ cursor = Pt(-1, -1)
    /\ queue = <<>>
    /\ pc = "events"
    /\ event = NoEvent
    /\ status = Ignored
    /\ emitted = <<>>
    /\ routed = NotRouted
    /\ gesture = NoGesture
    /\ nEvents = 0
    /\ frame = Editor_draw(App_view(App_new),
                           [interaction |-> Idle,
                            children |-> Editor_children(App_view(App_new))])
    /\ hint = Editor_mouse_interaction(App_view(App_new),
                           [interaction |-> Idle,
                            children |-> Editor_children(App_view(App_new))])

\* one input event routed through Editor::on_event at cursor position pos
Route(ev, pos) ==
    /\ pc = "events"
    /\ nEvents < MaxEvents
    /\ \E r \in {Editor_on_event(view, tree, ev, pos)} :
           /\ view' = r.ed
           /\ tree' = r.tree
           /\ routed' = [child_status |-> r.child_status, own |-> r.own,
                         statuses |-> r.statuses, contents |-> r.contents]
           /\ queue' = r.msgs
           /\ emitted' = r.msgs
           /\ status' = r.status
           /\ pc' = IF r.msgs = <<>> THEN "events" ELSE "update"
           /\ frame' = Editor_draw(r.ed, r.tree)
           /\ hint' = Editor_mouse_interaction(r.ed, r.tree)
    /\ event' = ev
    /\ cursor' = pos
    /\ gesture' = Gesture_next(gesture, ev, pos, view, tree)
    /\ nEvents' = nEvents + 1
    /\ UNCHANGED app

MoveCursor == \E p \in CursorPoints \ {cursor} : Route(CursorMoved, p)

Press == Route(ButtonPressed, cursor)

Release == Route(ButtonReleased, cursor)

Scroll == \E y \in ScrollDeltas : Route(WheelScrolled(y), cursor)

Other == \E ev \in OtherEvents : Route(ev, cursor)

\* the runtime hands the next published message to App::update
HostUpdate ==
    /\ pc = "update"
    /\ queue # <<>>
    /\ IF update_panics(app, Head(queue))
       THEN pc' = "panicked" /\ UNCHANGED <<app, queue>>
       ELSE /\ app' = update(app, Head(queue))
            /\ queue' = Tail(queue)
            /\ pc' = pc
    /\ UNCHANGED <<view, tree, cursor, event, status, emitted, routed, gesture,
                   nEvents, frame, hint>>

\* once every message is applied the runtime calls App::view, diffs the
\* new Editor against the persisted tree and draws it
Rebuild ==
    /\ pc = "update"
    /\ queue = <<>>
    /\ view' = App_view(app)
    /\ \E tr \in {Editor_diff(view, App_view(app), tree)} :
           /\ tree' = tr
           /\ frame' = Editor_draw(App_view(app), tr)
           /\ hint' = Editor_mouse_interaction(App_view(app), tr)
    /\ pc' = "events"
    /\ UNCHANGED <<app, cursor, queue, event, status, emitted, routed, gesture,
                   nEvents>>

Next ==
    \/ MoveCursor
    \/ Press
    \/ Release
    \/ Scroll
    \/ Other
    \/ HostUpdate
    \/ Rebuild

Spec == Init /\ [][Next]_vars

---------------------------------------------------------------------------
(* Deletion and drawing over every small graph *)

\* the lists of at most MaxEdges entries over 0..n, n being out of range
\* in a graph of n nodes
EdgeLists(n) == UNION { [1..m -> 0..n] : m \in 0..MaxEdges }

\* a host whose n nodes hold the edge lists es
GraphApp(n, es) ==
    [ nodes |-> [i \in 1..n |-> Node("A", Pt(100 * i, 40 * i), es[i])],
      scaling |-> R(1),
      translation |-> Pt(0, 0),
      theme |-> "Light" ]

\* the host holds a graph, drawn once, and Message::DeleteNode(k) is pending
InitGraphOf(a, k) ==
    /\ app = a
    /\ view = App_view(a)
    /\ tree = [interaction |-> Idle, children |-> Editor_children(App_view(a))]
    /\ frame = Editor_draw(App_view(a),
                           [interaction |-> Idle,
                            children |-> Editor_children(App_view(a))])
    /\ hint = Editor_mouse_interaction(App_view(a),
                           [interaction |-> Idle,
                            children |-> Editor_children(App_view(a))])
    /\ queue = <<DeleteNode(k)>>
    /\ emitted = <<DeleteNode(k)>>
    /\ pc = "update"
    /\ cursor = Pt(-1, -1)
    /\ event = NoEvent
    /\ status = Ignored
    /\ routed = NotRouted
    /\ gesture = NoGesture
    /\ nEvents = 0

InitGraph ==
    \E n \in 1..MaxNodes : \E es \in [1..n -> EdgeLists(n)] : \E k \in 0..(n - 1) :
        InitGraphOf(GraphApp(n, es), k)

NextGraph ==
    \/ HostUpdate
    \/ Rebuild

SpecGraph == InitGraph /\ [][NextGraph]_vars

TypeOK ==
    /\ pc \in {"events", "update", "panicked"}
    /\ nEvents \in 0..MaxEvents
    /\ Len(tree.children) = Len(view.nodes)

---------------------------------------------------------------------------
(* The same runtime over a host whose nodes were dragged to overlap *)

\* the offsets of App::new, and the offsets after B was dragged under the
\* band of A and D under the button of C: at (110, 105) the cursor is in the
\* band of A and of B, at (410, 130) on the button of C and in the band of D
Placements ==
    { << Pt(50, 50), Pt(150, 100), Pt(350, 25), Pt(500, 200) >>,
      << Pt(50, 50), Pt(40, 45), Pt(350, 25), Pt(340, 70) >> }

\* the host with its nodes at the offsets
Placed(a, offsets) ==
    [a EXCEPT !.nodes = [i \in 1..Len(a.nodes) |->
                            [a.nodes[i] EXCEPT !.offset = offsets[i]]]]

\* the runtime started over host a, drawn once
InitHost(a) ==
    /\ app = a
    /\ view = App_view(a)
    /\ tree = [interaction |-> Idle, children |-> Editor_children(App_view(a))]
    /\ frame = Editor_draw(App_view(a),
                           [interaction |-> Idle,
                            children |-> Editor_children(App_view(a))])
    /\ hint = Editor_mouse_interaction(App_view(a),
                           [interaction |-> Idle,
                            children |-> Editor_children(App_view(a))])
    /\ cursor = Pt(-1, -1)
    /\ queue = <<>>
    /\ pc = "events"
    /\ event = NoEvent
    /\ status = Ignored
    /\ emitted = <<>>
    /\ routed = NotRouted
    /\ gesture = NoGesture
    /\ nEvents = 0

InitPlaced == \E offsets \in Placements : InitHost(Placed(App_new, offsets))

SpecPlaced == InitPlaced /\ [][Next]_vars

---------------------------------------------------------------------------
(* Rebuilds over every small list and every persisted state *)

\* the states a node and the canvas may have been left in
NodeStates == { Idle, Hovered, Translating(Pt(110, 105), Pt(30, 20)) }
CanvasStates == { Idle, Translating(Pt(300, 400), Pt(10, -10)) }

\* the node at position i of a list, with an edge to the position after it,
\* and a node the host inserts
ListNode(i) == Node("A", Pt(100 * i, 40 * i), <<i>>)
InsertedNode == Node("B", Pt(20, 300), <<>>)

\* Vec::insert(q, x), for q <= len
InsertAt(s, q, x) ==
    [j \in 1..(Len(s) + 1) |->
        IF j <= q THEN s[j] ELSE IF j = q + 1 THEN x ELSE s[j - 1]]

\* a host of m nodes
ListApp(m) ==
    [ nodes |-> [i \in 1..m |-> ListNode(i)],
      scaling |-> R(1),
      translation |-> Pt(0, 0),
      theme |-> "Light" ]

\* the tree persisted for the Editor built from host old, drawn once; the
\* host is now a, with the messages of pending still to apply
InitDiffOf(old, tr, a, pending) ==
    /\ app = a
    /\ view = App_view(old)
    /\ tree = tr
    /\ frame = Editor_draw(App_view(old), tr)
    /\ hint = Editor_mouse_interaction(App_view(old), tr)
    /\ queue = pending
    /\ emitted = pending
    /\ pc = "update"
    /\ cursor = Pt(-1, -1)
    /\ event = NoEvent
    /\ status = Ignored
    /\ routed = NotRouted
    /\ gesture = NoGesture
    /\ nEvents = 0

\* the host is about to delete the node at index k, or has inserted a node
\* at index q
InitDiff ==
    \E m \in 0..MaxNodes : \E states \in [1..m -> NodeStates] :
    \E interaction \in CanvasStates :
    \E tr \in { [interaction |-> interaction,
                 children |-> [i \in 1..m |->
                                 [state |-> states[i], pressed |-> FALSE]]] } :
        \/ \E k \in 0..(m - 1) :
              InitDiffOf(ListApp(m), tr, ListApp(m), <<DeleteNode(k)>>)
        \/ \E q \in 0..m :
              InitDiffOf(ListApp(m), tr,
                         [ListApp(m) EXCEPT
                             !.nodes = InsertAt(ListApp(m).nodes, q, InsertedNode)],
                         <<>>)

NextDiff ==
    \/ HostUpdate
    \/ Rebuild

SpecDiff == InitDiff /\ [][NextDiff]_vars

---------------------------------------------------------------------------
(* Vocabulary of the claims *)

\* the step routes an input event
RouteStep == nEvents' = nEvents + 1

\* the messages of msgs that are NodeMoved events for the node at index
NodeMovedFor(msgs, index) ==
    SelectSeq(msgs, LAMBDA m : m.type = "NodeMoved" /\ m.index = index)

OfType(msgs, type) == SelectSeq(msgs, LAMBDA m : m.type = type)

\* the raw displacement from a to b in canvas-local units
CanvasDelta(a, b, scaling) ==
    [x |-> RDiv(RSub(b.x, a.x), scaling), y |-> RDiv(RSub(b.y, a.y), scaling)]

\* releasing after a press and cursor moves only commits, for the node at
\* position i, its static offset plus the displacement since the press
DragCommits(i) ==
    NodeMovedFor(emitted', i - 1) =
        << NodeMoved(i - 1, VAdd(view.nodes[i].offset,
                                 CanvasDelta(gesture.at, cursor', view.scaling))) >>

---------------------------------------------------------------------------
(* C1 as stated: pressing the primary button in the padding band of the    *)
(* node at index i (static offset o), moving the cursor by D in            *)
(* canvas-local units and releasing emits exactly one                     *)
(* NodeMoved{index: i, offset: o + D}, also for D = 0; cursor moves alone  *)
(* emit no NodeMoved.  Fails: a node that is Idle under the cursor (it was *)
(* dropped there, no cursor move since) is not dragged by the press.       *)
C1_Original ==
    [][ RouteStep =>
          /\ (event'.type = "ButtonReleased" /\ gesture.active)
                => \A i \in gesture.band : DragCommits(i)
          /\ event'.type = "CursorMoved" => OfType(emitted', "NodeMoved") = <<>>
      ]_vars

(* C1 amended: the same for a node that is Hovered when the button is      *)
(* pressed in its band: press, cursor moves by D in all, release emit      *)
(* exactly one NodeMoved{index: i, offset: o + D}, also for D = 0; and     *)
(* only a primary release emits a NodeMoved, a cursor move never does.     *)
C1_DragRoundTrip ==
    [][ RouteStep =>
          /\ (event'.type = "ButtonReleased" /\ gesture.active)
                => \A i \in gesture.band \cap gesture.hovered : DragCommits(i)
          /\ OfType(emitted', "NodeMoved") # <<>> => event'.type = "ButtonReleased"
      ]_vars

\* node A, grabbed by its band and moved by (190, 295), is committed at
\* (50, 50) + (190, 295)
C1_Witness ==
    /\ event.type = "ButtonReleased"
    /\ emitted = << NodeMoved(0, Pt(240, 345)) >>

---------------------------------------------------------------------------
\* x clamped to [lo, hi]
Clamp(x, lo, hi) == IF RLt(x, lo) THEN lo ELSE IF RLt(hi, x) THEN hi ELSE x

\* scaling * (1 + y / 15)
Zoomed(scaling, y) == RDiv(RMul(scaling, RAdd(R(15), y)), R(15))

\* the Scaled event m carries a scale in [0.1, 5.0], the clamped product
ScaledInRange(m, scaling, y) ==
    /\ RLe(<<1, 10>>, m.scaling)
    /\ RLe(m.scaling, <<5, 1>>)
    /\ m.scaling = Clamp(Zoomed(scaling, y), <<1, 10>>, <<5, 1>>)

(* C2: every Scaled event the editor emits carries a scale within          *)
(* [0.1, 5.0], equal to clamp(scale * (1 + y/15), 0.1, 5.0) for the        *)
(* current scale and the scroll delta y.                                   *)
C2_ScaledInRange ==
    [][ RouteStep =>
          \A k \in 1..Len(emitted') :
              emitted'[k].type = "Scaled"
                  => ScaledInRange(emitted'[k], view.scaling, event'.y)
      ]_vars

\* at scale 3 a scroll of y = 30 asks for 9 and 5 is emitted
C2_Witness ==
    /\ pc = "update"
    /\ event = WheelScrolled(R(30))
    /\ view.scaling = R(3)
    /\ Len(emitted) = 1
    /\ emitted[1].type = "Scaled"
    /\ emitted[1].scaling = R(5)

---------------------------------------------------------------------------
\* the scale is at the bound the scroll delta y points to
AtBoundOf(scaling, y) ==
    \/ RLt(R(0), y) /\ scaling = <<5, 1>>
    \/ RLt(y, R(0)) /\ scaling = <<1, 10>>

\* the scale is at the bound the scroll delta y points away from
AtOppositeBound(scaling, y) ==
    \/ RLt(R(0), y) /\ scaling = <<1, 10>>
    \/ RLt(y, R(0)) /\ scaling = <<5, 1>>

\* the routed scroll emitted exactly one Scaled event, which moves the
\* scale in the direction of y, up to the bound
ScrollMoves(msgs, scaling, y) ==
    /\ Len(msgs) = 1
    /\ msgs[1].type = "Scaled"
    /\ RLt(R(0), y) => RLt(scaling, msgs[1].scaling) /\ RLe(msgs[1].scaling, <<5, 1>>)
    /\ RLt(y, R(0)) => RLt(msgs[1].scaling, scaling) /\ RLe(<<1, 10>>, msgs[1].scaling)

(* C3: scroll saturation, the host applying every Scaled event.  A scroll  *)
(* over the editor at a scale off the bound of its direction emits one     *)
(* Scaled event that moves the scale towards that bound, at most to it;    *)
(* at the bound a scroll in the same direction emits nothing and is not    *)
(* consumed; a scroll in the opposite direction there emits a Scaled       *)
(* event with a scale strictly inside the bound; the host stores the       *)
(* scale of every Scaled event.                                            *)
C3_ScrollSaturation ==
    [][ /\ (RouteStep /\ event'.type = "WheelScrolled") =>
            /\ AtBoundOf(view.scaling, event'.y)
                  => emitted' = <<>> /\ status' = Ignored
            /\ (~AtBoundOf(view.scaling, event'.y) /\ contains(EditorBounds, cursor'))
                  => ScrollMoves(emitted', view.scaling, event'.y) /\ status' = Captured
            /\ (AtOppositeBound(view.scaling, event'.y) /\ contains(EditorBounds, cursor'))
                  => /\ ScrollMoves(emitted', view.scaling, event'.y)
                     /\ emitted'[1].scaling # view.scaling
        /\ (pc = "update" /\ queue # <<>> /\ Head(queue).type = "Scaled")
              => app'.scaling = Head(queue).scaling
      ]_vars

\* the scale has reached 5.0 and a further scroll up was left unconsumed
C3_Witness ==
    /\ event = WheelScrolled(R(30))
    /\ contains(EditorBounds, cursor)
    /\ view.scaling = <<5, 1>>
    /\ app.scaling = <<5, 1>>
    /\ emitted = <<>>
    /\ status = Ignored

---------------------------------------------------------------------------
\* the canvas-local point under the raw cursor c at scale s, translation t
CanvasPoint(c, s, t) == [x |-> RSub(RDiv(c.x, s), t.x), y |-> RSub(RDiv(c.y, s), t.y)]

(* C4: zoom anchoring: the pair (s', t') of an emitted Scaled event leaves *)
(* the canvas-local point under the cursor c unchanged:                    *)
(* c/s' - t' = c/s - t.  The code's t' = t - c (s' - s) / s^2 does not.    *)
C4_ZoomAnchored ==
    [][ RouteStep =>
          \A k \in 1..Len(emitted') :
              emitted'[k].type = "Scaled"
                  => CanvasPoint(cursor', emitted'[k].scaling, emitted'[k].translation)
                        = CanvasPoint(cursor', view.scaling, view.translation)
      ]_vars

---------------------------------------------------------------------------
\* the step changed the canvas state or emitted a Translated or Scaled event
OwnActed ==
    \/ tree'.interaction # tree.interaction
    \/ OfType(emitted', "Translated") # <<>>
    \/ OfType(emitted', "Scaled") # <<>>

\* no node consumed the event and the raw cursor is within the editor
Offered == routed'.child_status = Ignored /\ contains(EditorBounds, cursor')

(* C5 as stated: for every input event the editor's own recognizer changes *)
(* the canvas state or emits Translated/Scaled if and only if no child     *)
(* node consumed the event and the raw cursor lies within the editor's     *)
(* bounds.  Fails in the "if" direction: an event no arm handles changes   *)
(* nothing.                                                                *)
C5_Original == [][ RouteStep => (OwnActed <=> Offered) ]_vars

(* C5 amended: the editor's own recognizer is given the event if and only  *)
(* if no child node consumed it and the raw cursor lies within the         *)
(* editor's bounds, and it changes the canvas state or emits               *)
(* Translated/Scaled only then; a press consumed by a node never also      *)
(* starts a canvas pan.                                                    *)
C5_RoutingPrecedence ==
    [][ RouteStep =>
          /\ routed'.own <=> Offered
          /\ OwnActed => Offered
          /\ (event'.type = "ButtonPressed" /\ routed'.child_status = Captured)
                => tree'.interaction = tree.interaction
      ]_vars

\* a press over the editor was consumed by a node and the canvas is Idle
C5_Witness ==
    /\ event.type = "ButtonPressed"
    /\ contains(EditorBounds, cursor)
    /\ routed.child_status = Captured
    /\ ~routed.own
    /\ tree.interaction = Idle

---------------------------------------------------------------------------
(* C6: pan gesture.  Handled by the editor's recognizer, a primary press   *)
(* sets the canvas state to Translating{started_at: raw cursor,            *)
(* live_offset: 0}; a cursor move while Translating sets                   *)
(* live_offset = (cursor - started_at) / scale; a primary release while    *)
(* Translating emits exactly one Translated(translation + live_offset)     *)
(* and resets the canvas state to Idle; each of the three is consumed.     *)
C6_PanGesture ==
    [][ (RouteStep /\ routed'.own) =>
          /\ event'.type = "ButtonPressed"
                => /\ tree'.interaction = Translating(cursor', Pt(0, 0))
                   /\ status' = Captured
          /\ (event'.type = "CursorMoved" /\ tree.interaction.tag = "Translating")
                => /\ tree'.interaction =
                        Translating(tree.interaction.started_at,
                                    CanvasDelta(tree.interaction.started_at,
                                                cursor', view.scaling))
                   /\ status' = Captured
          /\ (event'.type = "ButtonReleased" /\ tree.interaction.tag = "Translating")
                => /\ OfType(emitted', "Translated") =
                        << Translated(VAdd(view.translation,
                                           tree.interaction.offset)) >>
                   /\ tree'.interaction = Idle
                   /\ status' = Captured
      ]_vars

\* a pan from the empty canvas at (300, 400) to (410, 130) at scale 3,
\* released: the translation moves by (110, -270) / 3
C6_Witness ==
    /\ event.type = "ButtonReleased"
    /\ routed.own
    /\ view.scaling = R(3)
    /\ emitted = << Translated(VAdd(view.translation, [x |-> <<110, 3>>, y |-> R(-90)])) >>
    /\ tree.interaction = Idle

---------------------------------------------------------------------------
(* C7: after any primary-button release routed through the editor the      *)
(* canvas state is Idle and no node is Translating, wherever the cursor    *)
(* is.  The canvas stays Translating when the release comes with the       *)
(* cursor outside the editor's bounds or is consumed by a node.            *)
C7_ReleaseResets ==
    [][ (RouteStep /\ event'.type = "ButtonReleased") =>
          /\ tree'.interaction.tag = "Idle"
          /\ \A i \in 1..Len(tree'.children) :
                tree'.children[i].state.tag # "Translating"
      ]_vars

---------------------------------------------------------------------------
\* the host's graph data
HostData(a) == <<a.nodes, a.scaling, a.translation>>

\* the step hands the host a message of one of the types
Applies(types) == pc = "update" /\ queue # <<>> /\ Head(queue).type \in types

(* C8 as stated: routing an event changes only the persisted interaction   *)
(* state; the host's node offsets, outgoing lists, scale and translation   *)
(* change only when the host applies an emitted NodeMoved, Scaled or       *)
(* Translated event.  Fails: the host's own DeleteNode message, published  *)
(* by a node's content, changes the node list.                             *)
C8_Original ==
    [][ /\ RouteStep => (app' = app /\ view' = view)
        /\ HostData(app') # HostData(app)
              => Applies({"NodeMoved", "Scaled", "Translated"})
      ]_vars

(* C8 amended: routing an event changes only the persisted interaction    *)
(* state (neither the editor's own nodes, scale and translation nor the    *)
(* host's); the host's data change only when the host applies an emitted   *)
(* NodeMoved, Scaled or Translated event, or its own DeleteNode message.   *)
C8_CoreNeverCommits ==
    [][ /\ RouteStep => (app' = app /\ view' = view)
        /\ HostData(app') # HostData(app)
              => Applies({"NodeMoved", "Scaled", "Translated", "DeleteNode"})
      ]_vars

\* a pan was released: the canvas state is Idle again, the Translated
\* event is published, and the host's translation is still the old one
C8_Witness ==
    /\ pc = "update"
    /\ Len(queue) = 1
    /\ queue[1].type = "Translated"
    /\ queue[1].translation # app.translation
    /\ app.translation = view.translation
    /\ tree.interaction = Idle

---------------------------------------------------------------------------
\* the entries of s above k moved down by one
Renumbered(s, k) == [p \in 1..Len(s) |-> IF s[p] > k THEN s[p] - 1 ELSE s[p]]

\* what the law makes of one outgoing list when node k goes
EdgesAfter(old_edges, k) == Renumbered(SelectSeq(old_edges, LAMBDA j : j # k), k)

\* every outgoing entry of every list is below bound
AllBelow(lists, bound) ==
    \A i \in 1..Len(lists) : \A p \in 1..Len(lists[i]) : lists[i][p] < bound

\* the law between the outgoing lists before and after node k goes: the
\* list of k is gone, the others keep their order, and each is renumbered
DeletionLaw(before, after, k) ==
    /\ Len(after) = Len(before) - 1
    /\ \A j \in 1..Len(after) :
          after[j] = EdgesAfter(before[IF j <= k THEN j ELSE j + 1], k)
    /\ AllBelow(before, Len(before)) => AllBelow(after, Len(before) - 1)

\* the outgoing lists of the nodes
EdgesOf(nodes) == [i \in 1..Len(nodes) |-> nodes[i].edges]

\* the same nodes in the first host, for lists of at most one entry
WithEdge(nodes) ==
    [i \in 1..Len(nodes) |->
        [kind |-> nodes[i].kind, offset |-> nodes[i].offset,
         edge |-> nodes[i].edges]]

\* the optional edges of the first host's nodes, as lists
EdgeOf(nodes) == [i \in 1..Len(nodes) |-> nodes[i].edge]

(* C9: host-side deletion law.  Deleting node k from an n-node graph,      *)
(* 0 <= k < n, removes every outgoing entry equal to k from every          *)
(* remaining node, decrements every entry greater than k by 1 and leaves   *)
(* every entry less than k unchanged, preserving the order of the          *)
(* remaining entries; if every entry was below n before, every entry is    *)
(* below n-1 after.  The remaining nodes keep kind and offset.  The first  *)
(* host, with one optional edge per node, obeys the same law.              *)
C9_DeletionLaw ==
    [][ (Applies({"DeleteNode"}) /\ ~update_panics(app, Head(queue))) =>
          /\ DeletionLaw(EdgesOf(app.nodes), EdgesOf(app'.nodes), Head(queue).index)
          /\ \A j \in 1..Len(app'.nodes) :
                /\ app'.nodes[j].kind =
                      app.nodes[IF j <= Head(queue).index THEN j ELSE j + 1].kind
                /\ app'.nodes[j].offset =
                      app.nodes[IF j <= Head(queue).index THEN j ELSE j + 1].offset
          /\ (\A i \in 1..Len(app.nodes) : Len(app.nodes[i].edges) <= 1)
                => DeletionLaw(EdgesOf(app.nodes),
                               EdgeOf(DeleteNodeArm_edge(WithEdge(app.nodes),
                                                         Head(queue).index)),
                               Head(queue).index)
      ]_vars

\* node 1 of three was deleted: <<2, 1>> became <<1>> and <<0, 2>> became
\* <<0, 1>>, and the list of the deleted node is gone
C9_Witness ==
    /\ pc = "update"
    /\ queue = <<>>
    /\ emitted = <<DeleteNode(1)>>
    /\ EdgesOf(view.nodes) = << <<2, 1>>, <<3>>, <<0, 2>> >>
    /\ EdgesOf(app.nodes) = << <<1>>, <<0, 1>> >>

---------------------------------------------------------------------------
\* the positions of the outgoing lists whose entry is below the node count
DrawnEntries(nodes) ==
    { <<i, p>> \in (1..Len(nodes)) \X (1..MaxEdges + 1) :
        p <= Len(nodes[i].edges) /\ nodes[i].edges[p] < Len(nodes) }

\* the positions of the frame's connectors from node i to node j
ConnectorsBetween(i, j) ==
    { p \in 1..Len(frame) : frame[p].from = i /\ frame[p].to = j }

\* the positions of node i's outgoing list that hold j
EntriesOf(nodes, i, j) ==
    { p \in 1..Len(nodes[i + 1].edges) : nodes[i + 1].edges[p] = j }

(* C10: edge rendering.  In one draw of an n-node list the number of       *)
(* connectors drawn equals the number of entries (i, j) in the outgoing    *)
(* lists with j < n; an entry with j out of range produces no draw call,   *)
(* and self-loops and duplicate targets each produce their own connector:  *)
(* from i to j there are as many connectors as entries j in i's list.      *)
C10_EdgeRendering ==
    /\ Len(frame) = Cardinality(DrawnEntries(view.nodes))
    /\ \A p \in 1..Len(frame) : frame[p].to < Len(view.nodes)
    /\ \A i \in 0..(Len(view.nodes) - 1) : \A j \in 0..(Len(view.nodes) - 1) :
          Cardinality(ConnectorsBetween(i, j)) =
              Cardinality(EntriesOf(view.nodes, i, j))

\* a frame of two nodes after a deletion: node 0 holds a doubled self-loop,
\* node 1 a dangling entry and an edge to node 0; three connectors
C10_Witness ==
    /\ pc = "events"
    /\ EdgesOf(view.nodes) = << <<0, 0>>, <<2, 0>> >>
    /\ Len(frame) = 3
    /\ frame[1].from = 0 /\ frame[1].to = 0
    /\ frame[2] = frame[1]
    /\ frame[3].from = 1 /\ frame[3].to = 0

---------------------------------------------------------------------------
\* the positions of the nodes that are Hovered
HoveredNodes == { i \in 1..Len(tree.children) : tree.children[i].state.tag = "Hovered" }

\* the cursor the nodes are handed lies in the padding band of the node at
\* position i
InBandNow(i) ==
    in_band(Node_layout(view.nodes[i]), transform_cursor(view, cursor))

(* C11: hover exclusivity.  After a cursor-move event two nodes are both   *)
(* Hovered only if the cursor lies in the padding band of both: a motion   *)
(* that enters the band of A leaves no other node B Hovered whose band     *)
(* does not hold the cursor point.                                         *)
C11_HoverExclusivity ==
    event.type = "CursorMoved" =>
        \A a \in HoveredNodes : \A b \in HoveredNodes \ {a} :
            InBandNow(a) /\ InBandNow(b)

\* the cursor moved, not for the first time, to a point in the bands of A
\* and of B, and exactly these two nodes are Hovered
C11_Witness ==
    /\ event.type = "CursorMoved"
    /\ HoveredNodes = {1, 2}
    /\ InBandNow(1) /\ InBandNow(2)
    /\ nEvents >= 2

---------------------------------------------------------------------------
\* the step is a rebuild
RebuildStep == pc = "update" /\ pc' = "events"

(* C12: positional reconciliation.  After every rebuild from an old list   *)
(* of m nodes to a new list of n nodes the tree holds exactly n node       *)
(* states; for every position below min(m, n) the state is the one that    *)
(* was there before the rebuild, unchanged (Hovered and Translating        *)
(* included), and for every position from m to n-1 it is Idle.             *)
C12_PositionalReconciliation ==
    [][ RebuildStep =>
          /\ Len(tree'.children) = Len(view'.nodes)
          /\ \A i \in 1..Len(view'.nodes) :
                tree'.children[i].state =
                    IF i <= Len(view.nodes) THEN tree.children[i].state ELSE Idle
          /\ tree'.interaction = tree.interaction
      ]_vars

\* a node was inserted in front of three: the drag in progress and the
\* hover stay at the first and second position, the fourth is Idle
C12_Witness ==
    /\ pc = "events"
    /\ Len(view.nodes) = 4
    /\ view.nodes[1] = InsertedNode
    /\ tree.children[1].state.tag = "Translating"
    /\ tree.children[2].state = Hovered
    /\ tree.children[3].state = Hovered
    /\ tree.children[4].state = Idle

---------------------------------------------------------------------------
\* two entries of the node lists are the same node of the host
SameNode(x, y) == x.kind = y.kind /\ x.offset = y.offset

\* the node at position j of the list was not in the list nodes
NotIn(nodes, x) == \A i \in 1..Len(nodes) : ~SameNode(nodes[i], x)

(* C13 as stated: when the host removes a node its interaction state is    *)
(* discarded at the next rebuild and carried over to no node of the new    *)
(* list, so every node that stays keeps its own state; a node inserted     *)
(* into the list starts Idle.  Fails: states stay with positions, not      *)
(* with nodes.                                                             *)
C13_Original ==
    [][ RebuildStep =>
          \A j \in 1..Len(view'.nodes) :
             /\ \A i \in 1..Len(view.nodes) :
                   SameNode(view.nodes[i], view'.nodes[j])
                      => tree'.children[j].state = tree.children[i].state
             /\ NotIn(view.nodes, view'.nodes[j])
                   => tree'.children[j].state = Idle
      ]_vars

(* C13 amended: at the rebuild after the host removed a node the states    *)
(* discarded are those of the positions the new list no longer has: the    *)
(* removed node's state is discarded only if no position of the new list   *)
(* takes it, and otherwise stays at its position, with the node that now   *)
(* stands there; every node that stays, and every inserted node, gets the  *)
(* state of the position it now stands at, which is a fresh Idle only at   *)
(* positions the old list did not have.                                    *)
C13_StateStaysWithPosition ==
    [][ RebuildStep =>
          /\ \A i \in 1..Len(view.nodes) :
                (NotIn(view'.nodes, view.nodes[i]) /\ i <= Len(view'.nodes))
                   => tree'.children[i].state = tree.children[i].state
          /\ \A j \in 1..Len(view'.nodes) :
                j <= Len(view.nodes)
                   => tree'.children[j].state = tree.children[j].state
          /\ \A j \in 1..Len(view'.nodes) :
                (NotIn(view.nodes, view'.nodes[j]) /\ j > Len(view.nodes))
                   => tree'.children[j].state = Idle
      ]_vars

\* the first of three nodes was deleted: the list holds the second and the
\* third, which stand in the states the first and the second position had
C13_Witness ==
    /\ pc = "events"
    /\ emitted = <<DeleteNode(0)>>
    /\ Len(view.nodes) = 2
    /\ SameNode(view.nodes[1], ListNode(2))
    /\ SameNode(view.nodes[2], ListNode(3))
    /\ tree.children[1].state.tag = "Translating"
    /\ tree.children[2].state = Idle
    /\ hint = Grabbing

---------------------------------------------------------------------------
\* the hint of greatest priority among the node states
HintOf(children) ==
    IF \E i \in 1..Len(children) : children[i].state.tag = "Translating"
    THEN Grabbing
    ELSE IF \E i \in 1..Len(children) : children[i].state.tag = "Hovered"
    THEN Grab
    ELSE Interaction_default

(* C14: cursor affordance.  A node reports default when Idle, grab when    *)
(* Hovered and grabbing when Translating, and the editor reports the       *)
(* hint of greatest priority over all nodes: grabbing if any node is       *)
(* Translating, else grab if any node is Hovered, else default, also       *)
(* while the canvas is being panned and for an empty node list.            *)
C14_CursorAffordance ==
    /\ hint = HintOf(tree.children)
    /\ Len(tree.children) = 0 => hint = Interaction_default
    /\ \A i \in 1..Len(tree.children) :
          /\ tree.children[i].state = Idle
                => Node_mouse_interaction(tree.children[i].state) = Interaction_default
          /\ tree.children[i].state = Hovered
                => Node_mouse_interaction(tree.children[i].state) = Grab
          /\ tree.children[i].state.tag = "Translating"
                => Node_mouse_interaction(tree.children[i].state) = Grabbing

\* after a rebuild the canvas is being panned, a Hovered node stands before
\* an Idle one and none is Translating: the editor reports grab
C14_Witness ==
    /\ pc = "events"
    /\ tree.interaction.tag = "Translating"
    /\ Len(tree.children) = 3
    /\ tree.children[1].state = Idle
    /\ tree.children[2].state = Hovered
    /\ tree.children[3].state = Idle
    /\ hint = Grab

---------------------------------------------------------------------------
(* C15: no panic path in draw.  In every reachable state, after any        *)
(* sequence of rebuilds, node deletions and events, the number of          *)
(* persisted node states and of layout children equals the number of       *)
(* nodes of the current list, so for every outgoing entry with a target    *)
(* in the list the state and layout lookups of source and target succeed.  *)
C15_DrawNeverPanics ==
    /\ Len(tree.children) = Len(view.nodes)
    /\ Len(Editor_layout(view)) = Len(view.nodes)
    /\ ~draw_panics(view, tree, Editor_layout(view))

\* node C was deleted and the editor rebuilt: three nodes, three states,
\* and the two connectors left are drawn
C15_Witness ==
    /\ pc = "events"
    /\ emitted = <<DeleteNode(2)>>
    /\ Len(view.nodes) = 3
    /\ Len(tree.children) = 3
    /\ EdgesOf(view.nodes) = << <<1>>, <<2>>, <<>> >>
    /\ Len(frame) = 2

---------------------------------------------------------------------------
(* C16: whenever the host applies a NodeMoved{index, offset} event, index  *)
(* is a position of the host's node list at that moment, also when the     *)
(* same input event made another node's content emit a DeleteNode message  *)
(* that the host applies before the NodeMoved.  Fails in that very case:   *)
(* the index was taken before the deletion.                                *)
C16_NodeMovedIndexValid ==
    (pc = "update" /\ queue # <<>> /\ Head(queue).type = "NodeMoved")
        => Head(queue).index < Len(app.nodes)

---------------------------------------------------------------------------
\* the state node::State has after a release with the cursor at c, for a
\* node laid out at layout
AfterRelease(layout, c) ==
    IF contains(layout.bounds, c) /\ ~contains(layout.content, c)
    THEN Hovered ELSE Idle

\* what the event routed by this step does to the Translating node at
\* position i, c being the cursor the nodes are handed
TranslatingNodeStep(i, c) ==
    /\ event'.type = "ButtonReleased" =>
          /\ NodeMovedFor(emitted', i - 1) =
                << NodeMoved(i - 1, VAdd(view.nodes[i].offset,
                                         tree.children[i].state.offset)) >>
          /\ tree'.children[i].state = AfterRelease(Node_layout(view.nodes[i]), c)
    /\ event'.type = "CursorMoved" =>
          tree'.children[i].state =
              Translating(tree.children[i].state.started_at,
                          VSub(c, tree.children[i].state.started_at))

(* C17: node release transition.  When a node at index i is Translating    *)
(* and a primary-button release arrives, the node emits                    *)
(* NodeMoved{index: i, offset: static_offset + live_offset} and its next   *)
(* state is Hovered if the transformed cursor is inside the node's outer   *)
(* bounds but outside its content bounds, else Idle; while Translating     *)
(* every cursor move sets live_offset = cursor - started_at.               *)
C17_NodeReleaseTransition ==
    [][ RouteStep =>
          \A i \in 1..Len(tree.children) :
             tree.children[i].state.tag = "Translating"
                => TranslatingNodeStep(i, transform_cursor(view, cursor'))
      ]_vars

\* a drag of node A was released with the cursor back in its band: the
\* node is Hovered and its NodeMoved is published
C17_Witness ==
    /\ event.type = "ButtonReleased"
    /\ NodeMovedFor(emitted, 0) # <<>>
    /\ tree.children[1].state = Hovered
    /\ nEvents >= 4

---------------------------------------------------------------------------
(* C18: a node that is Translating consumes the primary-button release     *)
(* that ends its drag (its status is Captured), so the editor's own        *)
(* recognizer does not act on that release and the editor's status for     *)
(* that event is consumed.  The node returns Ignored for it.               *)
C18_ReleaseConsumed ==
    [][ (RouteStep /\ event'.type = "ButtonReleased") =>
          \A i \in 1..Len(tree.children) :
             tree.children[i].state.tag = "Translating"
                => /\ routed'.statuses[i] = Captured
                   /\ ~routed'.own
                   /\ status' = Captured
      ]_vars

---------------------------------------------------------------------------
\* the event routed by this step is one of the three a node that is not
\* Translating reacts to, given its state and whether the cursor is in
\* its padding band
HasTransition(i, in_bounds) ==
    \/ event'.type = "CursorMoved" /\ tree.children[i].state = Idle /\ in_bounds
    \/ event'.type = "CursorMoved" /\ tree.children[i].state = Hovered /\ ~in_bounds
    \/ event'.type = "ButtonPressed" /\ tree.children[i].state = Hovered

\* what the event routed by this step does to the node at position i that
\* is not Translating and whose content ignored it, c being the cursor the
\* nodes are handed and in_bounds whether c is in the node's padding band
IdleNodeStep(i, c, in_bounds) ==
    /\ (event'.type = "CursorMoved" /\ tree.children[i].state = Idle /\ in_bounds)
          => /\ tree'.children[i].state = Hovered
             /\ routed'.statuses[i] = Captured
    /\ (event'.type = "CursorMoved" /\ tree.children[i].state = Hovered /\ ~in_bounds)
          => /\ tree'.children[i].state = Idle
             /\ routed'.statuses[i] = Captured
    /\ (event'.type = "ButtonPressed" /\ tree.children[i].state = Hovered)
          => /\ tree'.children[i].state = Translating(c, Pt(0, 0))
             /\ routed'.statuses[i] = Captured
    /\ ~HasTransition(i, in_bounds)
          => /\ tree'.children[i].state = tree.children[i].state
             /\ routed'.statuses[i] = Ignored

(* C19: hover/drag transitions of a node that is not Translating and       *)
(* whose content ignored the event: a cursor move in the padding band      *)
(* while Idle goes to Hovered (consumed); a cursor move outside the band   *)
(* while Hovered goes to Idle (consumed); a primary press while Hovered    *)
(* goes to Translating{started_at: cursor, live_offset: 0} (consumed);     *)
(* every other event leaves the state unchanged and is unconsumed, and so  *)
(* a primary press on the band of an Idle node starts no node drag.        *)
C19_HoverDragTransitions ==
    [][ RouteStep =>
          \A i \in 1..Len(tree.children) :
             (tree.children[i].state.tag # "Translating"
                 /\ routed'.contents[i] = Ignored)
                => IdleNodeStep(i, transform_cursor(view, cursor'),
                                in_band(Node_layout(view.nodes[i]),
                                        transform_cursor(view, cursor')))
      ]_vars

\* a primary press on the band of node A while it is Idle: the node
\* ignores it and stays Idle
C19_Witness ==
    /\ event.type = "ButtonPressed"
    /\ InBandNow(1)
    /\ routed.contents[1] = Ignored
    /\ routed.statuses[1] = Ignored
    /\ tree.children[1].state = Idle

---------------------------------------------------------------------------
(* C20: content first.  When a node is not Translating the event is        *)
(* offered to its wrapped content before the node's own hover/drag logic,  *)
(* and if the content consumes it the node's interaction state is          *)
(* unchanged and the node reports the event as consumed.                   *)
C20_ContentFirst ==
    [][ RouteStep =>
          \A i \in 1..Len(tree.children) :
             tree.children[i].state.tag # "Translating"
                => /\ routed'.contents[i] \in {Ignored, Captured}
                   /\ routed'.contents[i] = Captured
                         => /\ tree'.children[i].state = tree.children[i].state
                            /\ routed'.statuses[i] = Captured
      ]_vars

\* the button of node C consumed a press while D, whose band holds the
\* cursor, started its drag: C is still Idle and reports the press consumed
C20_Witness ==
    /\ event.type = "ButtonPressed"
    /\ routed.contents[3] = Captured
    /\ routed.statuses[3] = Captured
    /\ tree.children[3].state = Idle
    /\ tree.children[4].state.tag = "Translating"

---------------------------------------------------------------------------
(* C21: while a node is Translating its wrapped content receives no event  *)
(* at all: from the press that starts the drag (exclusive) to the release  *)
(* that ends it (inclusive) no event is forwarded to that node's content,  *)
(* whose state stays as it was, and non-mouse events leave the node's      *)
(* state unchanged and unconsumed.                                         *)
C21_NoContentEventsInDrag ==
    [][ RouteStep =>
          \A i \in 1..Len(tree.children) :
             tree.children[i].state.tag = "Translating"
                => /\ routed'.contents[i] = NotOffered
                   /\ tree'.children[i].pressed = tree.children[i].pressed
                   /\ event'.type = "KeyPressed"
                         => /\ tree'.children[i].state = tree.children[i].state
                            /\ routed'.statuses[i] = Ignored
      ]_vars

\* the drag of node D ended with a release over the button of C: the
\* button of C was given the release, the content of D was not
C21_Witness ==
    /\ event.type = "ButtonReleased"
    /\ NodeMovedFor(emitted, 3) # <<>>
    /\ routed.contents[3] = Captured
    /\ routed.contents[4] = NotOffered

---------------------------------------------------------------------------
(* C22: a primary press that reaches the editor's own recognizer starts a  *)
(* pan only when the canvas state is Idle; a press that reaches it while   *)
(* the canvas is already Translating is unconsumed and leaves started_at   *)
(* and live_offset unchanged.  The press arm tests no state: it restarts   *)
(* the pan.                                                                *)
C22_PressOnlyWhenIdle ==
    [][ (RouteStep /\ routed'.own /\ event'.type = "ButtonPressed") =>
          /\ tree.interaction.tag = "Idle"
                => /\ tree'.interaction = Translating(cursor', Pt(0, 0))
                   /\ status' = Captured
          /\ tree.interaction.tag = "Translating"
                => /\ tree'.interaction = tree.interaction
                   /\ status' = Ignored
      ]_vars

---------------------------------------------------------------------------
\* the node at position i made of the event routed by this step what r
\* says, r being Node::on_event on its state before the step
NodeGot(i, r) ==
    /\ tree'.children[i] = r.child
    /\ routed'.statuses[i] = r.status

RECURSIVE MsgsInOrder(_, _)
\* the messages the nodes from position i on publish for the event routed
\* by this step, each node on its state before the step, in list order
MsgsInOrder(i, c) ==
    IF i > Len(view.nodes) THEN <<>>
    ELSE Node_on_event(view.nodes[i], i - 1, tree.children[i], event',
                       Node_layout(view.nodes[i]), c).msgs
            \o MsgsInOrder(i + 1, c)

\* the nodes' messages come first among those published
StartsWith(msgs, prefix) ==
    /\ Len(msgs) >= Len(prefix)
    /\ SubSeq(msgs, 1, Len(prefix)) = prefix

(* C23: every input event is offered to every child node, in list order    *)
(* and each against its own persisted state, whether or not an earlier     *)
(* child consumed it, and all of them are offered it before the editor's   *)
(* own recognizer, whose messages follow theirs and which runs on their    *)
(* merged status; so one event can change the state of several nodes.      *)
C23_EveryNodeGetsEveryEvent ==
    [][ RouteStep =>
          /\ Len(routed'.statuses) = Len(view.nodes)
          /\ \A i \in 1..Len(view.nodes) :
                NodeGot(i, Node_on_event(view.nodes[i], i - 1, tree.children[i],
                                         event', Node_layout(view.nodes[i]),
                                         transform_cursor(view, cursor')))
          /\ StartsWith(emitted', MsgsInOrder(1, transform_cursor(view, cursor')))
          /\ routed'.child_status = Captured
                <=> \E i \in 1..Len(view.nodes) : routed'.statuses[i] = Captured
      ]_vars

\* one press started the drags of A and of B: A consumed it, and B, after
\* it in the list, was given it all the same
C23_Witness ==
    /\ event.type = "ButtonPressed"
    /\ routed.statuses[1] = Captured
    /\ routed.statuses[2] = Captured
    /\ tree.children[1].state = Translating(Pt(110, 105), Pt(0, 0))
    /\ tree.children[2].state = Translating(Pt(110, 105), Pt(0, 0))

---------------------------------------------------------------------------
\* the step ends or overwrites the canvas Translating state: any change of
\* it but the update of the live offset by a cursor move
CanvasPanEnds ==
    /\ tree.interaction.tag = "Translating"
    /\ tree'.interaction # tree.interaction
    /\ ~ (/\ RouteStep
          /\ event'.type = "CursorMoved"
          /\ tree'.interaction.tag = "Translating"
          /\ tree'.interaction.started_at = tree.interaction.started_at)

\* the step takes the node at position i out of Translating
NodeDragEnds(i) ==
    /\ tree.children[i].state.tag = "Translating"
    /\ \/ i > Len(tree'.children)
       \/ tree'.children[i].state.tag # "Translating"

(* C24: a live offset is never discarded without a commit.  Every          *)
(* transition that ends or overwrites a canvas Translating state is the    *)
(* routing of an event that emits exactly one Translated event carrying    *)
(* translation + live_offset, and every transition of a node out of        *)
(* Translating is the routing of an event that emits exactly one NodeMoved *)
(* carrying static_offset + live_offset.  A press that reaches the         *)
(* recognizer during a pan overwrites the live offset and emits nothing.   *)
C24_LiveOffsetCommitted ==
    [][ /\ CanvasPanEnds
           => /\ RouteStep
              /\ OfType(emitted', "Translated") =
                    << Translated(VAdd(view.translation, tree.interaction.offset)) >>
        /\ \A i \in 1..Len(tree.children) :
              NodeDragEnds(i)
                 => /\ RouteStep
                    /\ NodeMovedFor(emitted', i - 1) =
                          << NodeMoved(i - 1, VAdd(view.nodes[i].offset,
                                                   tree.children[i].state.offset)) >>
      ]_vars

---------------------------------------------------------------------------
\* the screen point of the canvas-local point p: (p + translation) * scale
ToScreen(ed, p) ==
    [x |-> RMul(RAdd(p.x, ed.translation.x), ed.scaling),
     y |-> RMul(RAdd(p.y, ed.translation.y), ed.scaling)]

\* canvas-local points to carry to the screen and back
ProbePoints == CursorPoints \cup { Pt(0, 0), Pt(-7, 3) }

\* the node at position i saw the event of this step at the canvas-local
\* point c: a drag it starts starts there, a hover it enters has c in its
\* band and one it leaves has not
NodeSawCursorAt(i, c) ==
    /\ (tree.children[i].state.tag # "Translating"
           /\ tree'.children[i].state.tag = "Translating")
          => tree'.children[i].state.started_at = c
    /\ (tree.children[i].state = Idle /\ tree'.children[i].state = Hovered)
          => in_band(Node_layout(view.nodes[i]), c)
    /\ (tree.children[i].state = Hovered /\ tree'.children[i].state = Idle)
          => ~in_band(Node_layout(view.nodes[i]), c)

(* C25: hit-testing uses the inverse of the canvas transform.  The cursor  *)
(* handed to the nodes is transform_cursor(c) = c / scale - translation,   *)
(* never the raw cursor, and for every canvas-local point p and every      *)
(* scale in [0.1, 5.0] and translation the editor is built with,           *)
(* transform_cursor((p + translation) * scale) = p.                        *)
C25_InverseTransform ==
    [][ RouteStep =>
          /\ RLe(MIN_SCALING, view.scaling) /\ RLe(view.scaling, MAX_SCALING)
          /\ transform_cursor(view, cursor') =
                CanvasPoint(cursor', view.scaling, view.translation)
          /\ \A p \in ProbePoints : transform_cursor(view, ToScreen(view, p)) = p
          /\ \A i \in 1..Len(tree.children) :
                NodeSawCursorAt(i, CanvasPoint(cursor', view.scaling,
                                               view.translation))
      ]_vars

\* at scale 3 a press started the drag of node A at the canvas-local
\* point under the cursor, which is not the raw cursor
C25_Witness ==
    /\ event.type = "ButtonPressed"
    /\ view.scaling = R(3)
    /\ tree.children[1].state.tag = "Translating"
    /\ tree.children[1].state.started_at =
          CanvasPoint(cursor, view.scaling, view.translation)
    /\ tree.children[1].state.started_at # cursor

---------------------------------------------------------------------------
\* the positions of the nodes that are Translating
TranslatingNodes ==
    { i \in 1..Len(tree.children) : tree.children[i].state.tag = "Translating" }

(* C26: at most one node is Translating at any time: after any sequence    *)
(* of events and rebuilds no two nodes of the list are being dragged       *)
(* simultaneously, and a single release therefore emits at most one        *)
(* NodeMoved.  Two nodes whose bands overlap under the cursor are both     *)
(* Hovered and one press starts both drags.                                *)
C26_OneDragAtATime ==
    /\ Cardinality(TranslatingNodes) <= 1
    /\ Len(OfType(emitted, "NodeMoved")) <= 1

---------------------------------------------------------------------------
(* C27: pan and node drag are mutually exclusive: in every reachable       *)
(* state the canvas state is Translating only if no node is Translating.   *)
(* A pan left Translating by a release outside the editor is still in      *)
(* progress when a node is then hovered and pressed.                       *)
C27_PanExcludesDrag ==
    tree.interaction.tag = "Translating" => TranslatingNodes = {}

---------------------------------------------------------------------------
(* C28: a node enters Translating only through a primary press delivered   *)
(* while the transformed cursor lies in that node's padding band under     *)
(* the scale, translation and layout current at the time of the press; a   *)
(* Hovered state made stale by a scale or translation change or a rebuild  *)
(* between the last cursor move and the press starts no drag.  The press   *)
(* arm tests the Hovered state alone, not the band.                        *)
C28_DragStartsInBand ==
    [][ \A i \in 1..Len(tree'.children) :
           (/\ tree'.children[i].state.tag = "Translating"
            /\ i \in 1..Len(tree.children)
            /\ tree.children[i].state.tag # "Translating")
              => /\ RouteStep
                 /\ event'.type = "ButtonPressed"
                 /\ in_band(Node_layout(view.nodes[i]),
                            transform_cursor(view, cursor'))
      ]_vars

---------------------------------------------------------------------------
\* the graph events among the messages
GraphEvents(msgs) ==
    SelectSeq(msgs, LAMBDA m : m.type \in {"NodeMoved", "Translated", "Scaled"})

(* C29: routing one input event through the editor emits at most one       *)
(* graph event (NodeMoved, Translated or Scaled) to the host: no single    *)
(* event produces two NodeMoved events, nor a NodeMoved together with a    *)
(* Translated or Scaled.  One release ends every drag in progress, and     *)
(* the pan as well since the nodes report it unconsumed.                   *)
C29_OneGraphEventPerInput ==
    Len(GraphEvents(emitted)) <= 1

============================================================================
